---- MODULE Spec2Model ----
(***************************************************************************)
(* A model of the change-ingestion pipeline of sync_rs: the bounded Event  *)
(* Queue (event_queue.rs, EventQueue), its single consumer                  *)
(* (start_event_loop and the three handlers), the Persistent Index         *)
(* (database.rs) and the file system the handlers read.                    *)
(*                                                                         *)
(* Paths are sequences of components: /a/b/c/g is <<"a","b","c","g">>,     *)
(* the root / is <<>>.  A file's content is a sequence of bytes; its size  *)
(* is the length and its SHA-256 digest is modelled as an injective tag of *)
(* the content.                                                            *)
(*                                                                         *)
(* The database starts fresh (no sync_rs.db yet).  The rows' own id and    *)
(* the timestamps created_at and last_synced_at, which no accessor reads,  *)
(* are left out.  The index is touched by the consumer task alone, so the  *)
(* reads of one handler that no other task can observe are taken in one    *)
(* step; the file system changes between the steps.  WalkDir's listing is  *)
(* taken when the scan starts; its entries are sent one per step, in any   *)
(* order.  The histories (sent, processed, shutdownHandled, inFlight,      *)
(* lastApplied, held, engineScans) record what happened and are read by no *)
(* action's guard, except engineScans, which bounds the number of scans.   *)
(*                                                                         *)
(* The watcher (file_watcher.rs) is the callback, the tasks it spawns, the *)
(* relay channel and the pump; notified records the notifications in the   *)
(* order of the callback's invocations; origins records, for each event   *)
(* sent, the folder whose scan sent it.  The in-memory engine              *)
(* (sync_engine.rs) is one file map; engineEvent records the last event    *)
(* handle_fs_change was called with.                                       *)
(***************************************************************************)
EXTENDS Integers, Sequences, FiniteSets, TLC

VARIABLES
    queue,            \* the mpsc channel's buffer (event_queue.rs:29)
    sent,             \* history: every event enqueued, in the order the sends completed
    processed,        \* history: every event the loop dequeued, in order
    clientSends,      \* number of events the external sender has issued
    pc,               \* where the consumer task is
    cur,              \* the event being handled
    dbLock,           \* holder of the tokio Mutex around the Database
    owner,            \* handle_file_changed_event: (folder_id, base_path), once resolved
    meta,             \* handle_file_changed_event: the metadata read (size, modified)
    scanTodo,         \* handle_folder_added_event: files WalkDir still has to yield
    folders,          \* table synced_folders
    files,            \* table file_index
    fs,               \* the file system: path -> the file behind it
    shutdownHandled,  \* history: handle_shutdown_event has run
    inFlight,         \* history: handlers started and not yet returned
    lastApplied,      \* history: what the handler that returned last did to the index
    held,             \* history: every (folder_id, relative_path, version) a record has had
    engineFiles,      \* sync_engine.rs: the file map of the SyncFolder of the in-memory engine
    engineScans,      \* history: how many times scan_folder has run
    engineEvent,      \* history: the event handle_fs_change was called with last
    notified,         \* history: the notifications the watcher callback was invoked with, in order
    spawned,          \* file_watcher.rs:25 the tasks the callback spawned that have not sent yet
    relay,            \* file_watcher.rs:11 the buffer of the channel between callback and pump
    origins,          \* history: for each event of sent, the id of the folder whose scan sent it, else 0
    pumpTodo          \* file_watcher.rs:39 the events the pump still has to send for the notification it took

vars == <<queue, sent, processed, clientSends, pc, cur, dbLock, owner, meta,
          scanTodo, folders, files, fs, shutdownHandled, inFlight,
          lastApplied, held, engineFiles, engineScans, engineEvent, notified,
          spawned, relay, pumpTodo, origins>>

engineVars == <<engineFiles, engineScans, engineEvent>>

watcherVars == <<notified, spawned, relay, pumpTodo>>

-----------------------------------------------------------------------------
(* Bounds of the model *)

QueueCap == 2
MaxSends == 3
MaxScans == 2
MaxNotify == 2
RelayCap == 1

-----------------------------------------------------------------------------
(* Paths *)

None == "None"

\* a path with no file behind it
AbsentFile == [present |-> FALSE, content |-> <<>>, mtime |-> 0]

\* a regular file
RegularFile(c, t) == [present |-> TRUE, content |-> c, mtime |-> t]

FolderA == <<"a">>
FolderAB == <<"a", "b">>
FileF == <<"a", "f">>
FileG == <<"a", "b", "c", "g">>

FolderPaths == {FolderA, FolderAB}

\* a directory elsewhere whose final component is that of /a
FolderXA == <<"x", "a">>

RegisterPaths == FolderPaths \cup {FolderXA}
FilePaths == {FileF, FileG}

Hi == <<104, 105>>
HiBang == <<104, 105, 33>>
\* what a write may leave behind: a content and a modification time (seconds)
Writes == {RegularFile(Hi, 1), RegularFile(HiBang, 2)}

\* Path::parent of a path with at least one component
Parent(p) == SubSeq(p, 1, Len(p) - 1)

\* Path::starts_with
IsPrefix(base, p) == Len(base) <= Len(p) /\ SubSeq(p, 1, Len(base)) = base

\* Path::strip_prefix, defined when base is a prefix of p
StripPrefix(p, base) == SubSeq(p, Len(base) + 1, Len(p))

\* Path::join
Join(base, rel) == base \o rel

\* Path::file_name
FileName(p) == p[Len(p)]

-----------------------------------------------------------------------------
(* sync_engine.rs: calculate_hash, and the metadata of a file *)

\* the faulty variant: an unreadable file hashes as the empty content
hash_always_ok(fsys, p) == TRUE

\* calculate_hash returns Ok: File::open and the reads succeed on a regular file
hash_ok(fsys, p) == p \in DOMAIN fsys /\ fsys[p].present

calculate_hash(content) == <<"sha256", content>>

SizeOf(content) == Len(content)

-----------------------------------------------------------------------------
(* Events *)

FileChanged(p, k) == [type |-> "FileChanged", path |-> p, kind |-> k]
FolderAdded(p) == [type |-> "FolderAdded", path |-> p, kind |-> None]
Shutdown == [type |-> "Shutdown", path |-> <<>>, kind |-> None]

NoEvent == [type |-> None, path |-> <<>>, kind |-> None]

ClientEvents ==
    {FolderAdded(p) : p \in FolderPaths}
    \cup {FileChanged(FileF, k) : k \in {"Modify", "Remove"}}
    \cup {Shutdown}

-----------------------------------------------------------------------------
(* database.rs *)

\* get_folder_by_path: the row whose local_path equals the path, as (id, local_path)
NoFolder == [found |-> FALSE, id |-> 0, base |-> <<>>]

get_folder_by_path(fset, p) ==
    IF \E r \in fset : r.local_path = p
    THEN LET r == CHOOSE r \in fset : r.local_path = p
         IN  [found |-> TRUE, id |-> r.id, base |-> r.local_path]
    ELSE NoFolder

\* the AUTOINCREMENT id of the next row
NextFolderId(fset) ==
    IF fset = {} THEN 1
    ELSE 1 + (CHOOSE m \in {r.id : r \in fset} : \A r \in fset : r.id <= m)

\* faulty variant: INSERT OR IGNORE, a conflicting insert is reported as a success
add_folder_or_ignore(fset, name, p) ==
    IF \E r \in fset : r.name = name \/ r.local_path = p
    THEN [ok |-> TRUE, rows |-> fset]
    ELSE [ok |-> TRUE,
          rows |-> fset \cup {[id |-> NextFolderId(fset), name |-> name,
                               local_path |-> p]}]

\* faulty variant: the table without its UNIQUE constraints
add_folder_unchecked(fset, name, p) ==
    [ok |-> TRUE,
     rows |-> fset \cup {[id |-> NextFolderId(fset), name |-> name,
                          local_path |-> p]}]

\* faulty variant: only local_path is UNIQUE
add_folder_path_only(fset, name, p) ==
    IF \E r \in fset : r.local_path = p
    THEN [ok |-> FALSE, rows |-> fset]
    ELSE [ok |-> TRUE,
          rows |-> fset \cup {[id |-> NextFolderId(fset), name |-> name,
                               local_path |-> p]}]

\* INSERT INTO synced_folders: name and local_path are both UNIQUE; ok is whether
\* the Result is Ok, rows the table afterwards
add_folder(fset, name, p) ==
    IF \E r \in fset : r.name = name \/ r.local_path = p
    THEN [ok |-> FALSE, rows |-> fset]
    ELSE [ok |-> TRUE,
          rows |-> fset \cup {[id |-> NextFolderId(fset), name |-> name,
                               local_path |-> p]}]

HasRecord(f, folder_id, rel) ==
    \E r \in f : r.folder_id = folder_id /\ r.relative_path = rel

RecordOf(f, folder_id, rel) ==
    CHOOSE r \in f : r.folder_id = folder_id /\ r.relative_path = rel

VersionOf(f, folder_id, rel) ==
    IF HasRecord(f, folder_id, rel) THEN RecordOf(f, folder_id, rel).version ELSE 0

\* faulty variant: INSERT OR REPLACE, the row is rewritten with the default version
upsert_or_replace(f, folder_id, rel, size, hash, mtime) ==
    {r \in f : ~(r.folder_id = folder_id /\ r.relative_path = rel)}
    \cup {[folder_id |-> folder_id, relative_path |-> rel,
           last_modified_secs |-> mtime, size_bytes |-> size,
           sha256_hash |-> hash, version |-> 1]}

\* faulty variant: the DO UPDATE also bumps the version of the folder's other rows
upsert_whole_folder(f, folder_id, rel, size, hash, mtime) ==
    IF \E r \in f : r.folder_id = folder_id /\ r.relative_path = rel
    THEN {IF r.folder_id = folder_id /\ r.relative_path = rel
          THEN [r EXCEPT !.last_modified_secs = mtime,
                         !.size_bytes = size,
                         !.sha256_hash = hash,
                         !.version = r.version + 1]
          ELSE IF r.folder_id = folder_id
          THEN [r EXCEPT !.version = r.version + 1]
          ELSE r : r \in f}
    ELSE f \cup {[folder_id |-> folder_id, relative_path |-> rel,
                  last_modified_secs |-> mtime, size_bytes |-> size,
                  sha256_hash |-> hash, version |-> 1]}

\* INSERT ... ON CONFLICT(folder_id, relative_path) DO UPDATE ... version = version + 1
upsert_file_record(f, folder_id, rel, size, hash, mtime) ==
    IF HasRecord(f, folder_id, rel)
    THEN {IF r.folder_id = folder_id /\ r.relative_path = rel
          THEN [r EXCEPT !.last_modified_secs = mtime,
                         !.size_bytes = size,
                         !.sha256_hash = hash,
                         !.version = r.version + 1]
          ELSE r : r \in f}
    ELSE f \cup {[folder_id |-> folder_id, relative_path |-> rel,
                  last_modified_secs |-> mtime, size_bytes |-> size,
                  sha256_hash |-> hash, version |-> 1]}

\* faulty variant: the DELETE without its relative_path condition
remove_folder_entries(f, folder_id, rel) ==
    {r \in f : r.folder_id # folder_id}

\* DELETE FROM file_index WHERE folder_id = ?1 AND relative_path = ?2
remove_file_entry(f, folder_id, rel) ==
    {r \in f : ~(r.folder_id = folder_id /\ r.relative_path = rel)}

\* one row of the SELECT as the FileEntry get_folders_and_files builds from it
EntryOfRow(base, r) ==
    [path |-> Join(base, r.relative_path), last_modified |-> r.last_modified_secs,
     size |-> r.size_bytes, hash |-> r.sha256_hash, version |-> r.version]

\* faulty variant: the SELECT without its WHERE folder_id = ?1
get_all_files(f, folder_id, base) ==
    LET keys == {Join(base, r.relative_path) : r \in f}
    IN  [k \in keys |->
            EntryOfRow(base, CHOOSE r \in f : Join(base, r.relative_path) = k)]

\* get_folders_and_files: the rows of folder_id as a HashMap keyed by the absolute path
get_folders_and_files(f, folder_id, base) ==
    LET rows == {r \in f : r.folder_id = folder_id}
        keys == {Join(base, r.relative_path) : r \in rows}
    IN  [k \in keys |->
            EntryOfRow(base, CHOOSE r \in rows : Join(base, r.relative_path) = k)]

-----------------------------------------------------------------------------
(* event_queue.rs: folder resolution of handle_file_changed_event *)

\* the while-let over path.parent(): nearest ancestor first
RECURSIVE resolve_from(_, _)
resolve_from(fset, current_path) ==
    IF get_folder_by_path(fset, current_path).found
    THEN get_folder_by_path(fset, current_path)
    ELSE IF current_path = <<>> THEN NoFolder
    ELSE resolve_from(fset, Parent(current_path))

\* faulty variant: the ancestors tried from the root down, farthest first
RECURSIVE resolve_down(_, _, _)
resolve_down(fset, p, n) ==
    IF n >= Len(p) THEN NoFolder
    ELSE IF get_folder_by_path(fset, SubSeq(p, 1, n)).found
    THEN get_folder_by_path(fset, SubSeq(p, 1, n))
    ELSE resolve_down(fset, p, n + 1)

resolve_farthest(fset, p) == resolve_down(fset, p, 0)

\* faulty variant: a path no tracked root encloses falls back to some tracked folder
resolve_or_any(fset, p) ==
    IF resolve_from(fset, Parent(p)).found \/ fset = {}
    THEN resolve_from(fset, Parent(p))
    ELSE get_folder_by_path(fset, (CHOOSE r \in fset : TRUE).local_path)

resolve_folder(fset, p) == resolve_from(fset, Parent(p))

\* Path::is_file: a regular file is behind the path (a directory is not one)
is_file(fsys, p) == p \in DOMAIN fsys /\ fsys[p].present

\* WalkDir::new(path) filtered to regular files
WalkFiles(fsys, root) == {p \in FilePaths : fsys[p].present /\ IsPrefix(root, p)}

-----------------------------------------------------------------------------
(* Initial state: a fresh database, an empty queue, the loop awaiting recv *)

NoMeta == [size |-> 0, mtime |-> 0]

NoEngineEvent ==
    [path |-> <<>>, kind |-> [tag |-> None, old_path |-> <<>>, new_path |-> <<>>],
     tick |-> 0]

NoApplied == [path |-> <<>>, op |-> None, before |-> 0, run |-> 0]

InitialFs ==
    [FilePaths -> {AbsentFile, RegularFile(Hi, 1)}]

Init ==
    /\ queue = <<>>
    /\ sent = <<>>
    /\ processed = <<>>
    /\ clientSends = 0
    /\ pc = "recv"
    /\ cur = NoEvent
    /\ dbLock = "free"
    /\ owner = NoFolder
    /\ meta = NoMeta
    /\ scanTodo = {}
    /\ folders = {}
    /\ files = {}
    /\ fs \in InitialFs
    /\ shutdownHandled = FALSE
    /\ inFlight = 0
    /\ lastApplied = NoApplied
    /\ held = {}
    /\ engineFiles = {}
    /\ engineScans = 0
    /\ engineEvent = NoEngineEvent
    /\ notified = <<>>
    /\ spawned = {}
    /\ relay = <<>>
    /\ pumpTodo = <<>>
    /\ origins = <<>>

-----------------------------------------------------------------------------
(* Senders *)

\* EventQueue::send: the send completes when the channel has room
CanSend(q) == Len(q) < QueueCap

Enqueue(q, e) == Append(q, e)

\* an external holder of the EventQueue handle (main.rs, send_test_events)
ClientSend(e) ==
    /\ clientSends < MaxSends
    /\ CanSend(queue)
    /\ queue' = Enqueue(queue, e)
    /\ sent' = Append(sent, e)
    /\ clientSends' = clientSends + 1
    /\ UNCHANGED <<processed, pc, cur, dbLock, owner, meta, scanTodo, folders,
                   files, fs, shutdownHandled, inFlight, lastApplied>>
    /\ UNCHANGED <<held, engineVars, watcherVars>>
    /\ origins' = Append(origins, 0)

-----------------------------------------------------------------------------
(* The file system changes under the pipeline *)

\* the files other programs write and delete while the pipeline runs
MutablePaths == {FileF}

FsWrite(p, w) ==
    /\ fs' = [fs EXCEPT ![p] = w]
    /\ fs' # fs
    /\ UNCHANGED <<queue, sent, processed, clientSends, pc, cur, dbLock, owner,
                   meta, scanTodo, folders, files, shutdownHandled, inFlight,
                   lastApplied>>
    /\ UNCHANGED <<held, engineVars, watcherVars, origins>>

FsRemove(p) ==
    /\ fs[p].present
    /\ fs' = [fs EXCEPT ![p] = AbsentFile]
    /\ UNCHANGED <<queue, sent, processed, clientSends, pc, cur, dbLock, owner,
                   meta, scanTodo, folders, files, shutdownHandled, inFlight,
                   lastApplied>>
    /\ UNCHANGED <<held, engineVars, watcherVars, origins>>

-----------------------------------------------------------------------------
(* event_queue.rs: start_event_loop *)

\* faulty variant: each handler spawned as a task of its own, the loop not awaiting it
LoopAlwaysReady == TRUE

\* the loop awaits recv only after the handler it awaited has returned
LoopReady == pc = "recv"

\* faulty variant: the newest message first
NextEventNewest(q) == q[Len(q)]

\* recv yields the oldest message of the channel
NextEvent(q) == Head(q)

AfterRecv(q) == Tail(q)

Dispatch(e) ==
    CASE e.type = "FileChanged" -> "fc_begin"
      [] e.type = "FolderAdded" -> "fa_register"
      [] OTHER -> "shutdown"

Recv ==
    /\ LoopReady
    /\ queue # <<>>
    /\ cur' = NextEvent(queue)
    /\ queue' = AfterRecv(queue)
    /\ processed' = Append(processed, NextEvent(queue))
    /\ pc' = Dispatch(NextEvent(queue))
    /\ inFlight' = inFlight + 1
    /\ UNCHANGED <<sent, clientSends, dbLock, owner, meta, scanTodo, folders,
                   files, fs, shutdownHandled, lastApplied>>
    /\ UNCHANGED <<held, engineVars, watcherVars, origins>>

\* a handler returns to the loop; its guard and its locals are dropped
Return(op, before) ==
    /\ pc' = "recv"
    /\ cur' = NoEvent
    /\ dbLock' = "free"
    /\ owner' = NoFolder
    /\ meta' = NoMeta
    /\ inFlight' = inFlight - 1
    /\ lastApplied' =
          IF op = None THEN NoApplied
          ELSE [path |-> cur.path, op |-> op, before |-> before,
                run |-> IF op = "upsert" /\ lastApplied.op = "upsert"
                           /\ lastApplied.path = cur.path
                        THEN lastApplied.run + 1 ELSE 1]

\* the faulty variant: the error is propagated out of the loop, which ends
DiscardAndStop ==
    /\ pc' = "stopped"
    /\ cur' = NoEvent
    /\ dbLock' = "free"
    /\ owner' = NoFolder
    /\ meta' = NoMeta
    /\ inFlight' = inFlight - 1
    /\ lastApplied' = [path |-> cur.path, op |-> "failed", before |-> 0, run |-> 1]

\* a handler's error branch: the error is printed, the handler returns
Discard == Return("failed", 0)

-----------------------------------------------------------------------------
(* event_queue.rs: handle_file_changed_event *)

\* lines 65-111: lock, resolve the folder, strip the prefix, then by kind:
\* Create/Modify check is_file and read the metadata, Remove deletes the record
FcBegin ==
    /\ pc = "fc_begin"
    /\ dbLock = "free"
    /\ LET info == resolve_folder(folders, cur.path)
           rel == StripPrefix(cur.path, info.base)
       IN  IF ~info.found
           THEN /\ Return(None, 0)
                /\ UNCHANGED files
           ELSE IF cur.kind \in {"Create", "Modify"}
           THEN IF ~is_file(fs, cur.path)
                THEN /\ Return(None, 0)
                     /\ UNCHANGED files
                ELSE /\ pc' = "fc_hash"
                     /\ dbLock' = "processor"
                     /\ owner' = info
                     /\ meta' = [size |-> SizeOf(fs[cur.path].content),
                                 mtime |-> fs[cur.path].mtime]
                     /\ UNCHANGED <<cur, inFlight, lastApplied, files>>
           ELSE IF cur.kind = "Remove"
           THEN /\ files' = remove_file_entry(files, info.id, rel)
                /\ Return("remove", VersionOf(files, info.id, rel))
           ELSE /\ Return(None, 0)
                /\ UNCHANGED files
    /\ UNCHANGED <<queue, sent, processed, clientSends, scanTodo, folders, fs,
                   shutdownHandled>>
    /\ UNCHANGED <<held, engineVars, watcherVars, origins>>

\* lines 113-140: calculate_hash, then upsert_file_record
FcHash ==
    /\ pc = "fc_hash"
    /\ LET rel == StripPrefix(cur.path, owner.base)
       IN  IF ~hash_ok(fs, cur.path)
           THEN /\ Discard
                /\ UNCHANGED <<files, held>>
           ELSE /\ files' = upsert_file_record(files, owner.id, rel, meta.size,
                                calculate_hash(fs[cur.path].content), meta.mtime)
                /\ held' = held \cup {[folder_id |-> r.folder_id,
                                         relative_path |-> r.relative_path,
                                         version |-> r.version] : r \in files'}
                /\ Return("upsert", VersionOf(files, owner.id, rel))
    /\ UNCHANGED <<queue, sent, processed, clientSends, scanTodo, folders, fs,
                   shutdownHandled>>
    /\ UNCHANGED <<engineVars, watcherVars, origins>>

-----------------------------------------------------------------------------
(* event_queue.rs: handle_folder_added_event *)

\* faulty variant: the guard is not dropped before the scan
FaRegisterKeepsGuard ==
    /\ pc = "fa_register"
    /\ dbLock = "free"
    /\ IF ~add_folder(folders, FileName(cur.path), cur.path).ok
       THEN /\ Discard
            /\ UNCHANGED <<folders, scanTodo>>
       ELSE /\ folders' = add_folder(folders, FileName(cur.path), cur.path).rows
            /\ scanTodo' = WalkFiles(fs, cur.path)
            /\ pc' = "fa_scan"
            /\ dbLock' = "processor"
            /\ UNCHANGED <<cur, owner, meta, inFlight, lastApplied>>
    /\ UNCHANGED <<queue, sent, processed, clientSends, files, fs,
                   shutdownHandled>>
    /\ UNCHANGED <<held, engineVars, watcherVars, origins>>

\* lines 161-170: lock, add_folder, drop the guard; WalkDir starts
FaRegister ==
    /\ pc = "fa_register"
    /\ dbLock = "free"
    /\ IF ~add_folder(folders, FileName(cur.path), cur.path).ok
       THEN /\ Discard
            /\ UNCHANGED <<folders, scanTodo>>
       ELSE /\ folders' = add_folder(folders, FileName(cur.path), cur.path).rows
            /\ scanTodo' = WalkFiles(fs, cur.path)
            /\ pc' = "fa_scan"
            /\ UNCHANGED <<cur, dbLock, owner, meta, inFlight, lastApplied>>
    /\ UNCHANGED <<queue, sent, processed, clientSends, files, fs,
                   shutdownHandled>>
    /\ UNCHANGED <<held, engineVars, watcherVars, origins>>

\* lines 173-182: one iteration of the for loop that finds a regular file
FaScanSend(p) ==
    /\ pc = "fa_scan"
    /\ p \in scanTodo
    /\ CanSend(queue)
    /\ queue' = Enqueue(queue, FileChanged(p, "Create"))
    /\ sent' = Append(sent, FileChanged(p, "Create"))
    /\ scanTodo' = scanTodo \ {p}
    /\ UNCHANGED <<processed, clientSends, pc, cur, dbLock, owner, meta, folders,
                   files, fs, shutdownHandled, inFlight, lastApplied>>
    /\ UNCHANGED <<held, engineVars, watcherVars>>
    /\ origins' = Append(origins, get_folder_by_path(folders, cur.path).id)

\* the iterator is exhausted: the handler returns
FaScanDone ==
    /\ pc = "fa_scan"
    /\ scanTodo = {}
    /\ Return(None, 0)
    /\ UNCHANGED <<queue, sent, processed, clientSends, scanTodo, folders, files,
                   fs, shutdownHandled>>
    /\ UNCHANGED <<held, engineVars, watcherVars, origins>>

-----------------------------------------------------------------------------
(* event_queue.rs: handle_shutdown_event *)

HandleShutdown ==
    /\ pc = "shutdown"
    /\ shutdownHandled' = TRUE
    /\ Return(None, 0)
    /\ UNCHANGED <<queue, sent, processed, clientSends, scanTodo, folders, files,
                   fs>>
    /\ UNCHANGED <<held, engineVars, watcherVars, origins>>

-----------------------------------------------------------------------------
(* sync_engine.rs: the in-memory engine, one SyncFolder whose path is /a *)

EnginePath == FolderA

FileEntry(p, f) ==
    [path |-> p, last_modified |-> f.mtime, size |-> SizeOf(f.content),
     hash |-> calculate_hash(f.content), version |-> 1]

\* SyncEngine::scan_folder: files.clear(), then one insert per regular file found
scan_folder(fsys, root) == {FileEntry(p, fsys[p]) : p \in WalkFiles(fsys, root)}

ScanFolder ==
    /\ engineScans < MaxScans
    /\ engineFiles' = scan_folder(fs, EnginePath)
    /\ engineScans' = engineScans + 1
    /\ UNCHANGED <<queue, sent, processed, clientSends, pc, cur, dbLock, owner,
                   meta, scanTodo, folders, files, fs, shutdownHandled, inFlight,
                   lastApplied, held, engineEvent>>
    /\ UNCHANGED <<watcherVars, origins>>

\* FsEventKind: Create, Modify, Remove, and Rename with its two paths
EngineKind(tag) == [tag |-> tag, old_path |-> <<>>, new_path |-> <<>>]

Rename(old, new) == [tag |-> "Rename", old_path |-> old, new_path |-> new]

EnginePaths == FilePaths

EngineKinds ==
    {EngineKind("Create"), EngineKind("Modify"), EngineKind("Remove")}
    \cup {Rename(old, new) : old \in EnginePaths, new \in EnginePaths}

\* HashMap::contains_key, get, remove and insert on the file map
HasKey(m, p) == \E e \in m : e.path = p

EntryAt(m, p) == CHOOSE e \in m : e.path = p

RemoveKey(m, p) == {e \in m : e.path # p}

Insert(m, e) == RemoveKey(m, e.path) \cup {e}

\* faulty variant: Rename copies the entry to new_path and leaves the one at old_path
handle_fs_change_copy(m, fsys, event_path, kind) ==
    CASE kind.tag \in {"Create", "Modify"} ->
            IF is_file(fsys, event_path)
            THEN Insert(m, FileEntry(event_path, fsys[event_path]))
            ELSE m
      [] kind.tag = "Remove" -> RemoveKey(m, event_path)
      [] OTHER ->
            IF HasKey(m, kind.old_path)
            THEN Insert(m, [EntryAt(m, kind.old_path) EXCEPT !.path = kind.new_path])
            ELSE m

\* SyncEngine::handle_fs_change on the file map of the folder
handle_fs_change(m, fsys, event_path, kind) ==
    CASE kind.tag \in {"Create", "Modify"} ->
            IF is_file(fsys, event_path)
            THEN Insert(m, FileEntry(event_path, fsys[event_path]))
            ELSE m
      [] kind.tag = "Remove" -> RemoveKey(m, event_path)
      [] OTHER ->
            IF HasKey(m, kind.old_path)
            THEN Insert(RemoveKey(m, kind.old_path),
                        [EntryAt(m, kind.old_path) EXCEPT !.path = kind.new_path])
            ELSE m

HandleFsChange(p, kind) ==
    /\ engineFiles' = handle_fs_change(engineFiles, fs, p, kind)
    /\ engineEvent' = [path |-> p, kind |-> kind, tick |-> 1 - engineEvent.tick]
    /\ UNCHANGED <<queue, sent, processed, clientSends, pc, cur, dbLock, owner,
                   meta, scanTodo, folders, files, fs, shutdownHandled, inFlight,
                   lastApplied, held, engineScans>>
    /\ UNCHANGED <<watcherVars, origins>>

-----------------------------------------------------------------------------
(* file_watcher.rs: the watcher callback, the relay channel and the pump *)

\* a raw notification of the OS watcher: its kind and the paths it names
Notification(k, ps) == [kind |-> k, paths |-> ps]

\* Access stands for every kind that is not Create, Modify or Remove
Notifications ==
    {Notification("Create", <<FileF>>), Notification("Modify", <<FileF>>),
     Notification("Remove", <<FileF>>), Notification("Access", <<FileF>>),
     Notification("Create", <<FolderAB>>),
     Notification("Modify", <<FileF, FileG>>)}

NoMapped == [some |-> FALSE, event |-> NoEvent]

\* the faulty variant: a kind the match does not know is passed on as Modify
map_every_kind(path, kind) ==
    IF kind \in {"Create", "Remove"}
    THEN [some |-> TRUE, event |-> FileChanged(path, kind)]
    ELSE [some |-> TRUE, event |-> FileChanged(path, "Modify")]

\* map_notify_event: Some(FileChanged) for Modify, Create and Remove, else None
map_notify_event(path, kind) ==
    CASE kind = "Modify" -> [some |-> TRUE, event |-> FileChanged(path, "Modify")]
      [] kind = "Create" -> [some |-> TRUE, event |-> FileChanged(path, "Create")]
      [] kind = "Remove" -> [some |-> TRUE, event |-> FileChanged(path, "Remove")]
      [] OTHER -> NoMapped

\* the pump's for loop over event.paths: the events it sends, in order
RECURSIVE EventsOf(_, _)
EventsOf(ps, kind) ==
    IF ps = <<>> THEN <<>>
    ELSE LET m == map_notify_event(Head(ps), kind)
         IN  (IF m.some THEN <<m.event>> ELSE <<>>) \o EventsOf(Tail(ps), kind)

\* lines 18-27: the callback is invoked with Ok(event) and spawns a task that
\* will send the event into the relay
OsNotify(n) ==
    /\ Len(notified) < MaxNotify
    /\ notified' = Append(notified, n)
    /\ spawned' = spawned \cup {[id |-> Len(notified) + 1, event |-> n]}
    /\ UNCHANGED <<queue, sent, processed, clientSends, pc, cur, dbLock, owner,
                   meta, scanTodo, folders, files, fs, shutdownHandled, inFlight,
                   lastApplied, held, engineVars, relay, pumpTodo, origins>>

\* line 24: a spawned task runs tx.send(event).await; the runtime picks the task
RelaySend(t) ==
    /\ t \in spawned
    /\ Len(relay) < RelayCap
    /\ relay' = Append(relay, t.event)
    /\ spawned' = spawned \ {t}
    /\ UNCHANGED <<queue, sent, processed, clientSends, pc, cur, dbLock, owner,
                   meta, scanTodo, folders, files, fs, shutdownHandled, inFlight,
                   lastApplied, held, engineVars, notified, pumpTodo, origins>>

\* line 39: rx.recv() yields the oldest relayed notification; the for loop starts
PumpRecv ==
    /\ pumpTodo = <<>>
    /\ relay # <<>>
    /\ pumpTodo' = EventsOf(Head(relay).paths, Head(relay).kind)
    /\ relay' = Tail(relay)
    /\ UNCHANGED <<queue, sent, processed, clientSends, pc, cur, dbLock, owner,
                   meta, scanTodo, folders, files, fs, shutdownHandled, inFlight,
                   lastApplied, held, engineVars, notified, spawned, origins>>

\* line 43: queue.send(q_event).await for the next path of the notification
PumpSend ==
    /\ pumpTodo # <<>>
    /\ CanSend(queue)
    /\ queue' = Enqueue(queue, Head(pumpTodo))
    /\ sent' = Append(sent, Head(pumpTodo))
    /\ pumpTodo' = Tail(pumpTodo)
    /\ UNCHANGED <<processed, clientSends, pc, cur, dbLock, owner, meta, scanTodo,
                   folders, files, fs, shutdownHandled, inFlight, lastApplied,
                   held, engineVars, notified, spawned, relay>>
    /\ origins' = Append(origins, 0)

-----------------------------------------------------------------------------
(* event_queue.rs: the error branches a failing read or a failing statement takes *)

\* lines 105-111: fs::metadata returns Err on a path that is a file
FcMetadataError ==
    /\ pc = "fc_begin"
    /\ dbLock = "free"
    /\ cur.kind \in {"Create", "Modify"}
    /\ resolve_folder(folders, cur.path).found
    /\ is_file(fs, cur.path)
    /\ Discard
    /\ UNCHANGED <<queue, sent, processed, clientSends, scanTodo, folders, files,
                   fs, shutdownHandled>>
    /\ UNCHANGED <<held, engineVars, watcherVars, origins>>

\* lines 113-122: calculate_hash returns Err on a file that is there
FcHashError ==
    /\ pc = "fc_hash"
    /\ hash_ok(fs, cur.path)
    /\ Discard
    /\ UNCHANGED <<queue, sent, processed, clientSends, scanTodo, folders, files,
                   fs, shutdownHandled>>
    /\ UNCHANGED <<held, engineVars, watcherVars, origins>>

\* lines 132-140: upsert_file_record returns Err
FcUpsertError ==
    /\ pc = "fc_hash"
    /\ hash_ok(fs, cur.path)
    /\ Discard
    /\ UNCHANGED <<queue, sent, processed, clientSends, scanTodo, folders, files,
                   fs, shutdownHandled>>
    /\ UNCHANGED <<held, engineVars, watcherVars, origins>>

\* lines 143-147: remove_file_entry returns Err
FcRemoveError ==
    /\ pc = "fc_begin"
    /\ dbLock = "free"
    /\ cur.kind = "Remove"
    /\ resolve_folder(folders, cur.path).found
    /\ Discard
    /\ UNCHANGED <<queue, sent, processed, clientSends, scanTodo, folders, files,
                   fs, shutdownHandled>>
    /\ UNCHANGED <<held, engineVars, watcherVars, origins>>

\* lines 163-168: add_folder returns Err for a reason other than a duplicate
FaAddFolderError ==
    /\ pc = "fa_register"
    /\ dbLock = "free"
    /\ add_folder(folders, FileName(cur.path), cur.path).ok
    /\ Discard
    /\ UNCHANGED <<queue, sent, processed, clientSends, scanTodo, folders, files,
                   fs, shutdownHandled>>
    /\ UNCHANGED <<held, engineVars, watcherVars, origins>>

-----------------------------------------------------------------------------

Next ==
    \/ \E e \in ClientEvents : ClientSend(e)
    \/ \E p \in MutablePaths, w \in Writes : FsWrite(p, w)
    \/ \E p \in MutablePaths : FsRemove(p)
    \/ Recv
    \/ FcBegin
    \/ FcHash
    \/ FaRegister
    \/ \E p \in FilePaths : FaScanSend(p)
    \/ FaScanDone
    \/ HandleShutdown

Spec == Init /\ [][Next]_vars

\* the consumer task: tokio polls a task that can make progress
Processor ==
    \/ Recv
    \/ FcBegin
    \/ FcHash
    \/ FaRegister
    \/ \E p \in FilePaths : FaScanSend(p)
    \/ FaScanDone
    \/ HandleShutdown

FairSpec == Init /\ [][Next]_vars /\ WF_vars(Processor)

\* scans of a directory nothing writes to: FolderAdded events only, and scan_folder
RescanNext ==
    \/ \E p \in FolderPaths : ClientSend(FolderAdded(p))
    \/ Recv
    \/ FcBegin
    \/ FcHash
    \/ FaRegister
    \/ \E p \in FilePaths : FaScanSend(p)
    \/ FaScanDone
    \/ ScanFolder

RescanSpec == Init /\ [][RescanNext]_vars

\* FileChanged events of every kind; of a Rename kind the handler reads the tag only
FrameEvents ==
    {FolderAdded(FolderA), FolderAdded(FolderAB), FileChanged(FileF, "Modify"),
     FileChanged(FileG, "Remove"), FileChanged(FileF, "Rename")}

FrameNext ==
    \/ \E e \in FrameEvents : ClientSend(e)
    \/ \E p \in MutablePaths, w \in Writes : FsWrite(p, w)
    \/ \E p \in MutablePaths : FsRemove(p)
    \/ Recv
    \/ FcBegin
    \/ FcHash
    \/ FaRegister
    \/ \E p \in FilePaths : FaScanSend(p)
    \/ FaScanDone

FrameSpec == Init /\ [][FrameNext]_vars

\* the in-memory engine over a file system that changes
EngineNext ==
    \/ ScanFolder
    \/ \E p \in EnginePaths, k \in EngineKinds : HandleFsChange(p, k)
    \/ \E p \in MutablePaths, w \in Writes : FsWrite(p, w)
    \/ \E p \in MutablePaths : FsRemove(p)

EngineSpec == Init /\ [][EngineNext]_vars

\* registrations only: FolderAdded events for /a, /a/b and /x/a
RegisterNext ==
    \/ \E p \in RegisterPaths : ClientSend(FolderAdded(p))
    \/ Recv
    \/ FcBegin
    \/ FcHash
    \/ FaRegister
    \/ \E p \in FilePaths : FaScanSend(p)
    \/ FaScanDone

RegisterSpec == Init /\ [][RegisterNext]_vars

\* the events sent while errors are injected
FailEvents ==
    {FolderAdded(FolderA), FileChanged(FileF, "Modify"), FileChanged(FileF, "Remove")}

\* the pipeline with storage and file-system errors
FailNext ==
    \/ \E e \in FailEvents : ClientSend(e)
    \/ \E p \in MutablePaths : FsRemove(p)
    \/ Recv
    \/ FcBegin
    \/ FcHash
    \/ FaRegister
    \/ \E p \in FilePaths : FaScanSend(p)
    \/ FaScanDone
    \/ FcMetadataError
    \/ FcHashError
    \/ FcUpsertError
    \/ FcRemoveError
    \/ FaAddFolderError

FailSpec == Init /\ [][FailNext]_vars

\* the watcher runs over a database a previous run left: /a is registered
\* (main.rs:22 Database::new opens sync_rs.db, database.rs:32 CREATE TABLE IF NOT EXISTS)
WatcherInit ==
    /\ queue = <<>>
    /\ sent = <<>>
    /\ processed = <<>>
    /\ clientSends = 0
    /\ pc = "recv"
    /\ cur = NoEvent
    /\ dbLock = "free"
    /\ owner = NoFolder
    /\ meta = NoMeta
    /\ scanTodo = {}
    /\ folders = add_folder({}, FileName(FolderA), FolderA).rows
    /\ files = {}
    /\ fs \in InitialFs
    /\ shutdownHandled = FALSE
    /\ inFlight = 0
    /\ lastApplied = NoApplied
    /\ held = {}
    /\ engineFiles = {}
    /\ engineScans = 0
    /\ engineEvent = NoEngineEvent
    /\ notified = <<>>
    /\ spawned = {}
    /\ relay = <<>>
    /\ pumpTodo = <<>>
    /\ origins = <<>>

\* main as it runs: the watcher is the only sender, the consumer handles its events
WatcherNext ==
    \/ \E n \in Notifications : OsNotify(n)
    \/ \E t \in spawned : RelaySend(t)
    \/ PumpRecv
    \/ PumpSend
    \/ Recv
    \/ FcBegin
    \/ FcHash
    \/ \E p \in MutablePaths : FsRemove(p)

WatcherSpec == WatcherInit /\ [][WatcherNext]_vars

-----------------------------------------------------------------------------
(* Properties *)

\* the handler of a Create or Modify event commits its upsert in this step
UpsertStep == pc = "fc_hash" /\ pc' = "recv" /\ fs[cur.path].present

\* the handler of a Remove event runs in this step
RemoveStep ==
    pc = "fc_begin" /\ cur.type = "FileChanged" /\ cur.kind = "Remove" /\ pc' = "recv"

\* the consumer is idle and nothing is queued
Quiescent == pc = "recv" /\ queue = <<>>

CountOf(e) == Cardinality({i \in 1..Len(processed) : processed[i] = e})

\* root is a proper ancestor of p
Encloses(root, p) == Len(root) < Len(p) /\ IsPrefix(root, p)

\* the tracked folder with the longest root among those enclosing p
NearestRoot(fset, p) ==
    CHOOSE r \in fset :
        /\ Encloses(r.local_path, p)
        /\ \A o \in fset : Encloses(o.local_path, p) => Len(o.local_path) <= Len(r.local_path)

\* the records whose folder root joined with their relative path is p
RecordsOfPath(p) ==
    {r \in files : \E d \in folders :
        d.id = r.folder_id /\ Join(d.local_path, r.relative_path) = p}

\* the record a scan leaves for the file at p under the tracked folder d
ScannedRecord(d, p) ==
    [folder_id |-> d.id, relative_path |-> StripPrefix(p, d.local_path),
     last_modified_secs |-> fs[p].mtime, size_bytes |-> SizeOf(fs[p].content),
     sha256_hash |-> calculate_hash(fs[p].content), version |-> 1]

\* C1: the events the loop has dequeued, followed by those still queued, are exactly
\* the events sent, in the order their sends completed: none reordered, skipped or
\* dequeued twice.
OrderPreserved == sent = processed \o queue

OrderWitness ==
    /\ Len(processed) >= 3
    /\ processed[1] # processed[2]
    /\ processed[2] # processed[3]
    /\ files # {}

\* C2: once handle_shutdown_event has run, the loop dequeues nothing more and the
\* index (folders and file records) never changes again.
ShutdownIsTerminal ==
    [][shutdownHandled =>
          processed' = processed /\ files' = files /\ folders' = folders]_vars

\* C3: whenever handle_folder_added_event is scanning, it eventually returns to the
\* event loop.
FolderAddedCompletes == (pc = "fa_scan") ~> (pc = "recv")

\* C4: the upsert of a Create or Modify event leaves a record for the event's
\* (folder_id, relative_path) whose version is 1 when there was none and the old
\* version plus one when there was one, and whose size, hash and modified time are
\* those the handler read.
UpsertBumpsVersion ==
    [][UpsertStep =>
          LET rel == StripPrefix(cur.path, owner.base)
              r == RecordOf(files', owner.id, rel)
          IN  /\ HasRecord(files', owner.id, rel)
              /\ r.version = VersionOf(files, owner.id, rel) + 1
              /\ r.size_bytes = meta.size
              /\ r.last_modified_secs = meta.mtime
              /\ r.sha256_hash = calculate_hash(fs[cur.path].content)]_vars

UpsertWitness ==
    /\ lastApplied.op = "upsert"
    /\ lastApplied.before = 1
    /\ \E r \in files :
          /\ r.relative_path = <<"f">>
          /\ r.version = 2
          /\ r.size_bytes = 3
          /\ r.sha256_hash = calculate_hash(HiBang)

\* C5: at most one handler is running at any time; and when two Create/Modify
\* events for the same existing file are handled one right after the other, the
\* second upsert leaves the version at the version before the first plus two,
\* with the size and hash read while handling the second.
SerialHandlers ==
    /\ [](inFlight <= 1)
    /\ [][(UpsertStep /\ lastApplied.op = "upsert" /\ lastApplied.path = cur.path) =>
            LET rel == StripPrefix(cur.path, owner.base)
                r == RecordOf(files', owner.id, rel)
            IN  /\ HasRecord(files', owner.id, rel)
                /\ r.version = lastApplied.before + 2
                /\ r.size_bytes = meta.size
                /\ r.sha256_hash = calculate_hash(fs[cur.path].content)]_vars

SerialWitness ==
    /\ pc = "recv"
    /\ inFlight = 0
    /\ lastApplied.op = "upsert"
    /\ lastApplied.run >= 2
    /\ lastApplied.before >= 2
    /\ \E r \in files : r.version = lastApplied.before + 1

\* C6: every record a FileChanged event inserts, updates or deletes belongs to the
\* tracked folder with the longest root among those enclosing the event's path, and
\* its relative path joined to that root is the event's path.
NearestEnclosingOwner ==
    [][\A r \in (files' \ files) \cup (files \ files') :
          /\ cur.type = "FileChanged"
          /\ \E d \in folders : Encloses(d.local_path, cur.path)
          /\ r.folder_id = NearestRoot(folders, cur.path).id
          /\ Join(NearestRoot(folders, cur.path).local_path, r.relative_path) = cur.path]_vars

NestedOwnerWitness ==
    /\ {d.local_path : d \in folders} = {FolderA, FolderAB}
    /\ \E r \in files, d \in folders :
          /\ d.local_path = FolderAB
          /\ r.folder_id = d.id
          /\ r.relative_path = <<"c", "g">>
    /\ ~\E r \in files : r.relative_path = <<"b", "c", "g">>

\* C7 as stated: once a second FolderAdded for a root has been handled and the queue
\* has drained, each record of an unchanged file under it has a version one higher
\* than after the first scan (2); and after a second scan_folder each entry's
\* version is 2.
RescanBumpsVersion ==
    /\ \A d \in folders, p \in FilePaths :
          (/\ Quiescent
           /\ CountOf(FolderAdded(d.local_path)) = 2
           /\ p \in WalkFiles(fs, d.local_path)
           /\ \A o \in folders : Encloses(o.local_path, p) => o = d)
          => \A r \in RecordsOfPath(p) : r.version = 2
    /\ engineScans = 2 => \A e \in engineFiles : e.version = 2

\* C7 as amended: once FolderAdded events for a root have been handled twice or more
\* and the queue has drained, an unchanged file under it has exactly the record the
\* first scan left, version 1; and after any number of scan_folder calls the engine
\* holds exactly one entry per file, with version 1.
RescanKeepsVersion ==
    /\ \A d \in folders, p \in FilePaths :
          (/\ Quiescent
           /\ CountOf(FolderAdded(d.local_path)) >= 2
           /\ p \in WalkFiles(fs, d.local_path)
           /\ \A o \in folders : Encloses(o.local_path, p) => o = d)
          => RecordsOfPath(p) = {ScannedRecord(d, p)}
    /\ engineScans >= 1 =>
          engineFiles = {FileEntry(p, fs[p]) : p \in WalkFiles(fs, EnginePath)}

RescanWitness ==
    /\ Quiescent
    /\ CountOf(FolderAdded(FolderA)) = 2
    /\ {d.local_path : d \in folders} = {FolderA}
    /\ WalkFiles(fs, FolderA) = {FileF, FileG}
    /\ Cardinality(files) = 2
    /\ engineScans = 2
    /\ Cardinality(engineFiles) = 2

\* C8: a Remove event deletes the record of its (folder_id, relative_path) and no
\* other, leaves the folders alone and returns to the loop; when there is no such
\* record, or no enclosing folder, the index is unchanged.
RemoveDeletesExactly ==
    [][RemoveStep =>
          LET info == resolve_folder(folders, cur.path)
              rel == StripPrefix(cur.path, info.base)
          IN  /\ folders' = folders
              /\ info.found =>
                    /\ ~HasRecord(files', info.id, rel)
                    /\ \A r \in files :
                          (r.folder_id # info.id \/ r.relative_path # rel) => r \in files'
                    /\ files' \subseteq files
              /\ (~info.found \/ ~HasRecord(files, info.id, rel)) => files' = files]_vars

RemoveWitness ==
    /\ lastApplied.op = "remove"
    /\ lastApplied.before = 2
    /\ folders # {}
    /\ files = {}

\* C9 as stated: tracked folders have pairwise distinct roots and none lies inside
\* another.
NoNestedFolders ==
    \A d1, d2 \in folders :
        d1 # d2 => /\ d1.local_path # d2.local_path
                   /\ ~IsPrefix(d1.local_path, d2.local_path)

\* C9 as amended: tracked folders have pairwise distinct roots (and names and ids);
\* one root may lie inside another.
DistinctRoots ==
    \A d1, d2 \in folders :
        d1 # d2 => /\ d1.local_path # d2.local_path
                   /\ d1.name # d2.name
                   /\ d1.id # d2.id

NestedFoldersWitness ==
    /\ \E d1, d2 \in folders :
          d1.local_path = FolderA /\ d2.local_path = FolderAB /\ d1.id # d2.id
    /\ CountOf(FolderAdded(FolderA)) >= 2
    /\ Quiescent

\* C10: a record that appears or changes has a version strictly greater than every
\* version its (folder_id, relative_path) has had before.
VersionNeverFallsBack ==
    [][\A r \in files' \ files : \A h \in held :
          (h.folder_id = r.folder_id /\ h.relative_path = r.relative_path)
          => r.version > h.version]_vars

\* C11: the queue never holds more than its capacity, and every event whose send
\* completed with no Shutdown sent before it is eventually received by the consumer.
NoEventLost ==
    /\ [](Len(queue) <= QueueCap)
    /\ \A i \in 1..(3 * MaxSends) :
          (Len(sent) >= i /\ \A j \in 1..i : sent[j] # Shutdown)
              ~> (Len(processed) >= i)

\* C13: the task handling a Create or Modify event never holds the index lock while
\* it computes the hash.
NoLockWhileHashing ==
    ~(pc = "fc_hash" /\ cur.kind \in {"Create", "Modify"} /\ dbLock = "processor")

\* s is an initial segment of t
IsPrefixSeq(s, t) == Len(s) <= Len(t) /\ \A i \in 1..Len(s) : s[i] = t[i]

\* the Change Events the notifications ns map to, in the order of ns
RECURSIVE DerivedEvents(_)
DerivedEvents(ns) ==
    IF ns = <<>> THEN <<>>
    ELSE EventsOf(Head(ns).paths, Head(ns).kind) \o DerivedEvents(Tail(ns))

\* C12: the events reach the queue in the order in which the watcher callback was
\* invoked for their notifications.
NotificationsInOrder == IsPrefixSeq(sent, DerivedEvents(notified))

\* a handler returns through one of its error branches in this step
FailureStep == inFlight' < inFlight /\ lastApplied'.op = "failed"

\* C14: when a handler fails (a metadata read, a hash, an index insert, update or
\* delete, or add_folder), the index and the queue are left as they were, so the
\* event is not retried, the index lock is free and the loop is back at recv.
FailureIsolated ==
    [][FailureStep =>
          /\ LoopReady'
          /\ dbLock' = "free"
          /\ files' = files
          /\ folders' = folders
          /\ queue' = queue
          /\ sent' = sent
          /\ processed' = processed]_vars

FailureWitness ==
    /\ lastApplied.op = "failed"
    /\ pc = "fc_hash"
    /\ Len(processed) >= 3

\* C15: the handler of a FileChanged event whose path no tracked root encloses
\* returns at once: index, folder table and queue are unchanged, nothing is sent and
\* the event is not put back.
UntrackedDiscarded ==
    [][(/\ pc = "fc_begin"
        /\ pc' # "fc_begin"
        /\ ~\E d \in folders : Encloses(d.local_path, cur.path))
       => /\ pc' = "recv"
          /\ files' = files
          /\ folders' = folders
          /\ queue' = queue
          /\ sent' = sent]_vars

\* FileChanged(/a/f, Modify) was handled before /a was registered; the scan of /a
\* then indexed /a/f, and its record is at version 1
UntrackedWitness ==
    /\ processed = <<FileChanged(FileF, "Modify"), FolderAdded(FolderA),
                     FileChanged(FileF, "Create")>>
    /\ Quiescent
    /\ \E r \in RecordsOfPath(FileF) : r.version = 1

\* handle_folder_added_event runs add_folder in this step
RegisterStep == pc = "fa_register" /\ pc' # "fa_register"

\* C16: registering a folder whose root or whose name (the root's final component)
\* is already registered fails: the folder table is unchanged and the handler returns
\* without sending a scan event; a registration that succeeds adds one row whose id
\* differs from every id issued before.
RegistrationUnique ==
    [][RegisterStep =>
          IF \E d \in folders :
                d.local_path = cur.path \/ d.name = FileName(cur.path)
          THEN /\ folders' = folders
               /\ pc' = "recv"
               /\ scanTodo' = {}
               /\ queue' = queue
               /\ sent' = sent
          ELSE \E n \in folders' :
                /\ n \notin folders
                /\ folders' = folders \cup {n}
                /\ n.local_path = cur.path
                /\ n.name = FileName(cur.path)
                /\ \A d \in folders : d.id # n.id]_vars

\* /x/a was refused for its name, /a/b was registered with an id of its own
RegistrationWitness ==
    /\ {d.local_path : d \in folders} = {FolderA, FolderAB}
    /\ Cardinality({d.id : d \in folders}) = 2
    /\ CountOf(FolderAdded(FolderXA)) = 1
    /\ Quiescent

\* C17: right after the upsert of a file, get_folders_and_files for the file's folder
\* and root holds exactly one entry for the file, keyed by the root joined with the
\* relative path (the file's absolute path), with the size and hash upserted; every
\* entry of the map comes from a record of that folder_id, one entry per record.
UpsertReadsBack ==
    [][UpsertStep =>
          LET m == get_folders_and_files(files', owner.id, owner.base)
              mine == {r \in files' : r.folder_id = owner.id}
          IN  /\ cur.path \in DOMAIN m
              /\ Cardinality({k \in DOMAIN m : m[k].path = cur.path}) = 1
              /\ m[cur.path].path = cur.path
              /\ m[cur.path].size = meta.size
              /\ m[cur.path].hash = calculate_hash(fs[cur.path].content)
              /\ Cardinality(DOMAIN m) = Cardinality(mine)
              /\ \A k \in DOMAIN m : \E r \in mine :
                    /\ k = Join(owner.base, r.relative_path)
                    /\ m[k].version = r.version]_vars

\* /a/b/c/g has a record under /a and, upserted last, one under /a/b
ReadBackWitness ==
    /\ lastApplied.op = "upsert"
    /\ lastApplied.path = FileG
    /\ pc = "recv"
    /\ Cardinality({r.folder_id : r \in RecordsOfPath(FileG)}) = 2

\* C18: when the handler of a Create or Modify event returns and no regular file is
\* behind the event's path at that moment (the file was deleted, or the path is a
\* directory), the index is unchanged: no record is inserted and the record of the
\* path, if any, keeps its size, hash and version.
NonFileDiscarded ==
    [][(/\ cur.type = "FileChanged"
        /\ cur.kind \in {"Create", "Modify"}
        /\ pc \in {"fc_begin", "fc_hash"}
        /\ pc' = "recv"
        /\ ~(cur.path \in FilePaths /\ fs[cur.path].present))
       => files' = files]_vars

\* /a/f was indexed, then deleted, and the Modify event that followed left its
\* record at version 1
NonFileWitness ==
    /\ processed = <<FileChanged(FileF, "Create"), FileChanged(FileF, "Modify")>>
    /\ Quiescent
    /\ ~fs[FileF].present
    /\ \E r \in RecordsOfPath(FileF) :
          r.version = 1 /\ r.sha256_hash = calculate_hash(Hi) /\ r.size_bytes = 2

\* the pump takes a notification from the relay in this step
PumpRecvStep == Len(relay') < Len(relay)

MappedKinds == {"Create", "Modify", "Remove"}

\* C19 as stated: a notification of kind Create, Modify or Remove yields exactly one
\* FileChanged event of that kind, a notification of any other kind yields none.
OneEventPerNotification ==
    [][PumpRecvStep =>
          IF Head(relay).kind \in MappedKinds
          THEN /\ Len(pumpTodo') = 1
               /\ pumpTodo'[1].type = "FileChanged"
               /\ pumpTodo'[1].kind = Head(relay).kind
          ELSE pumpTodo' = <<>>]_vars

\* C19 as amended: a notification of kind Create, Modify or Remove yields one
\* FileChanged event of that kind for each path it names, in the order of the paths;
\* a notification of any other kind yields none; every event the watcher has sent is
\* a FileChanged event of kind Create, Modify or Remove.
OneEventPerPath ==
    [][/\ PumpRecvStep =>
             IF Head(relay).kind \in MappedKinds
             THEN /\ Len(pumpTodo') = Len(Head(relay).paths)
                  /\ \A i \in 1..Len(pumpTodo') :
                        pumpTodo'[i] = [type |-> "FileChanged",
                                        path |-> Head(relay).paths[i],
                                        kind |-> Head(relay).kind]
             ELSE pumpTodo' = <<>>
       /\ \A i \in 1..Len(sent') :
             sent'[i].type = "FileChanged" /\ sent'[i].kind \in MappedKinds]_vars

\* an Access notification gave nothing, a Modify notification naming two paths gave
\* two events
PerPathWitness ==
    /\ notified = <<Notification("Access", <<FileF>>),
                    Notification("Modify", <<FileF, FileG>>)>>
    /\ spawned = {}
    /\ relay = <<>>
    /\ pumpTodo = <<>>
    /\ sent = <<FileChanged(FileF, "Modify"), FileChanged(FileG, "Modify")>>

\* handle_fs_change runs with a Rename in this step
RenameStep == engineEvent'.tick # engineEvent.tick /\ engineEvent'.kind.tag = "Rename"

\* C20 as stated: a Rename whose old path is a key of the map leaves at the new path
\* an entry with the old entry's size, hash and version and path = new, and the old
\* path is not a key afterwards; a Rename whose old path is not a key changes nothing.
RenameDropsOld ==
    [][RenameStep =>
          LET old == engineEvent'.kind.old_path
              new == engineEvent'.kind.new_path
          IN  /\ ~HasKey(engineFiles', old)
              /\ IF HasKey(engineFiles, old)
                 THEN /\ HasKey(engineFiles', new)
                      /\ EntryAt(engineFiles', new) =
                            [EntryAt(engineFiles, old) EXCEPT !.path = new]
                 ELSE engineFiles' = engineFiles]_vars

\* C20 as amended: the same, the old path being no key afterwards when it differs
\* from the new path; the map has one entry at the new path and its entries at other
\* paths are unchanged.
RenameMovesEntry ==
    [][RenameStep =>
          LET old == engineEvent'.kind.old_path
              new == engineEvent'.kind.new_path
          IN  /\ old # new => ~HasKey(engineFiles', old)
              /\ IF HasKey(engineFiles, old)
                 THEN /\ HasKey(engineFiles', new)
                      /\ Cardinality({e \in engineFiles' : e.path = new}) = 1
                      /\ EntryAt(engineFiles', new).size = EntryAt(engineFiles, old).size
                      /\ EntryAt(engineFiles', new).hash = EntryAt(engineFiles, old).hash
                      /\ EntryAt(engineFiles', new).version =
                            EntryAt(engineFiles, old).version
                      /\ EntryAt(engineFiles', new).path = new
                      /\ {e \in engineFiles' : e.path \notin {old, new}} =
                            {e \in engineFiles : e.path \notin {old, new}}
                 ELSE engineFiles' = engineFiles]_vars

\* /a/f, indexed with the content "hi!", was renamed to /a/b/c/g: the entry at the
\* new path has the hash of the old file
RenameWitness ==
    /\ engineEvent.kind = Rename(FileF, FileG)
    /\ ~HasKey(engineFiles, FileF)
    /\ HasKey(engineFiles, FileG)
    /\ EntryAt(engineFiles, FileG).hash = calculate_hash(HiBang)
    /\ EntryAt(engineFiles, FileG).size = 3

\* the folder whose scan sent the event the consumer is handling, 0 when the event
\* was not sent by a scan
OriginOfCur == origins[Len(processed)]

\* the consumer is handling an event that a scan sent
HandlingScanEvent == pc \in {"fc_begin", "fc_hash"} /\ OriginOfCur # 0

\* while the handler scans, the root is registered under its final component and the
\* index lock is free, and every scan event sent carries the id of a registered folder
RegisteredBeforeScan ==
    /\ pc = "fa_scan" =>
          /\ dbLock = "free"
          /\ \E d \in folders :
                d.local_path = cur.path /\ d.name = FileName(cur.path)
    /\ \A i \in 1..Len(origins) :
          origins[i] # 0 =>
             \E d \in folders :
                d.id = origins[i] /\ Encloses(d.local_path, sent[i].path)

\* C21 as stated: the registration is committed and the lock released before the
\* first scan event is sent, and a scan event resolves, when it is handled, to the
\* folder whose scan sent it.
ScanResolvesToNewFolder ==
    /\ RegisteredBeforeScan
    /\ HandlingScanEvent =>
          /\ resolve_folder(folders, cur.path).found
          /\ resolve_folder(folders, cur.path).id = OriginOfCur
          /\ pc = "fc_hash" => owner.id = OriginOfCur

\* C21 as amended: the same, a scan event resolving to the nearest tracked root that
\* encloses its path: the folder whose scan sent it, or a tracked folder inside it.
ScanResolvesInsideNewFolder ==
    /\ RegisteredBeforeScan
    /\ HandlingScanEvent =>
          /\ resolve_folder(folders, cur.path).found
          /\ resolve_folder(folders, cur.path).id = NearestRoot(folders, cur.path).id
          /\ \E d \in folders :
                /\ d.id = OriginOfCur
                /\ IsPrefix(d.local_path, resolve_folder(folders, cur.path).base)
          /\ pc = "fc_hash" => owner = resolve_folder(folders, cur.path)

\* the scan of /a sent Create for /a/b/c/g; /a/b was registered before the event was
\* handled, and the event resolved to /a/b
ScanResolvesWitness ==
    /\ pc = "fc_hash"
    /\ cur = FileChanged(FileG, "Create")
    /\ \E d \in folders : d.id = OriginOfCur /\ d.local_path = FolderA
    /\ owner.base = FolderAB
    /\ dbLock = "processor"

\* the handler of a FileChanged event takes a step
FileChangedStep == pc \in {"fc_begin", "fc_hash"} /\ pc' # pc

\* r is the record of the path p under the nearest tracked root enclosing p
IsRecordOf(r, p) ==
    /\ \E d \in folders : Encloses(d.local_path, p)
    /\ r.folder_id = NearestRoot(folders, p).id
    /\ r.relative_path = StripPrefix(p, NearestRoot(folders, p).local_path)

\* C22: a step of the handler of a FileChanged event for a path leaves the folder
\* table and the queue as they were and sends nothing; a record that appears,
\* disappears or changes is the record of (owning folder of the path, the path
\* relative to its root); an event of kind Rename leaves the index as it was.
FileChangedFrame ==
    [][FileChangedStep =>
          /\ folders' = folders
          /\ queue' = queue
          /\ sent' = sent
          /\ \A r \in (files \ files') \cup (files' \ files) : IsRecordOf(r, cur.path)
          /\ Cardinality(files \ files') <= 1
          /\ Cardinality(files' \ files) <= 1
          /\ cur.kind = "Rename" => files' = files]_vars

\* /a holds records of /a/f and /a/b/c/g; a Rename event for /a/f left both as they
\* were, and the Modify event for /a/f that followed bumped the record of /a/f only
FrameWitness ==
    /\ Quiescent
    /\ CountOf(FileChanged(FileF, "Rename")) = 1
    /\ processed[Len(processed)] = FileChanged(FileF, "Modify")
    /\ lastApplied.op = "upsert"
    /\ \E r \in RecordsOfPath(FileF) : r.version = 2
    /\ \E r \in RecordsOfPath(FileG) : r.version = 1

====
